---- MODULE Spec2Model ----
(***************************************************************************)
(* Model of the composer's completion engine of CodexMonitor:              *)
(*   - useFileSearch  (src/unnamed/part_001): debounced, sequence-numbered *)
(*     asynchronous file search;                                           *)
(*   - Composer       (src/src/components/Composer.tsx): slash / mention   *)
(*     trigger detection, keyboard navigation, apply and dismiss;          *)
(*   - SlashMenu      (src/src/components/SlashMenu.tsx): hover / click.   *)
(* Strings are sequences of one-character strings; indices in the          *)
(* definitions that model JavaScript are 0-based as in the source.         *)
(***************************************************************************)
EXTENDS Integers, Sequences, FiniteSets, TLC

(***************************************************************************)
(* Bounds                                                                  *)
(***************************************************************************)
MaxRequests == 4      \* cap on requestId.current (number of effect runs)
MaxLen == 4           \* longest buffer the user types
MaxParseLen == 4      \* longest text handed to findAtQuery in ParseSpec

(***************************************************************************)
(* JavaScript string helpers                                               *)
(***************************************************************************)
Null == <<"null">>                     \* the value null where a string may stand

Min(a, b) == IF a < b THEN a ELSE b

\* /\s/ restricted to the characters of the model's alphabets
IsWhitespace(c) == c \in {" ", "\t", "\n"}

\* String.prototype.slice(from, to) for non-negative arguments
Slice(s, from, to) == SubSeq(s, Min(from, Len(s)) + 1, Min(to, Len(s)))

\* String.prototype.slice(from)
SliceFrom(s, from) == SubSeq(s, Min(from, Len(s)) + 1, Len(s))

\* String.prototype.includes(c) for a one-character needle
Includes(s, c) == \E i \in 1..Len(s) : s[i] = c

\* s.includes(sub) for a string sub
IncludesString(s, sub) ==
    \E i \in 0..(Len(s) - Len(sub)) : SubSeq(s, i + 1, i + Len(sub)) = sub

\* String.prototype.lastIndexOf(c): 0-based, -1 when absent
LastIndexOf(s, c) ==
    IF Includes(s, c)
    THEN (CHOOSE i \in 1..Len(s) : s[i] = c /\ \A j \in (i + 1)..Len(s) : s[j] # c) - 1
    ELSE -1

\* String.prototype.startsWith(c) for a one-character prefix
StartsWith(s, c) == Len(s) > 0 /\ s[1] = c

\* String.prototype.trim()
Trim(s) ==
    IF \A i \in 1..Len(s) : IsWhitespace(s[i])
    THEN <<>>
    ELSE LET first == CHOOSE i \in 1..Len(s) :
                          ~IsWhitespace(s[i]) /\ \A j \in 1..(i - 1) : IsWhitespace(s[j])
             last  == CHOOSE i \in 1..Len(s) :
                          ~IsWhitespace(s[i]) /\ \A j \in (i + 1)..Len(s) : IsWhitespace(s[j])
         IN  SubSeq(s, first, last)

\* values.filter(Boolean) over a sequence of strings: the empty string is falsy
FilterBoolean(s) == LET Truthy(v) == v # "" IN SelectSeq(s, Truthy)

(***************************************************************************)
(* State                                                                   *)
(***************************************************************************)
VARIABLES
    \* ---- useFileSearch ----
    query,          \* prop query: a string or Null
    workspaceId,    \* prop workspaceId: a string or NullWorkspace
    enabled,        \* prop enabled
    items,          \* useState items
    isLoading,      \* useState isLoading
    requestId,      \* requestId.current
    timers,         \* pending setTimeout callbacks, each with its closure
    handle,         \* the handle the last effect's cleanup closes over (0: none)
    inflight,       \* searchFiles calls awaiting their result
    mounted,        \* the hook's component is mounted
    dispatched,     \* history: the searches dispatched, in order
    ended,        \* history: how the last request that ended as the current one ended
    ev,             \* history: the last step of the hook and the onDebug entries it made
    \* ---- Composer ----
    text,           \* useState text
    cursorIndex,    \* useState cursorIndex
    completionIndex,\* useState completionIndex
    disabled,       \* prop disabled
    fileItems,      \* prop fileItems
    render,         \* the useMemo / const values of the last render
    atSignal,       \* last value passed to onAtQueryChange
    lastOp,         \* history: the last event the Composer handled
    \* ---- findAtQuery as a pure function ----
    parseIn,        \* the arguments
    parseOut        \* the result, once applied

searchVars == <<query, workspaceId, enabled, items, isLoading, requestId, timers,
                handle, inflight, mounted, dispatched, ended, ev>>
composerVars == <<text, cursorIndex, completionIndex, disabled, fileItems,
                  render, atSignal, lastOp>>
parseVars == <<parseIn, parseOut>>
vars == <<searchVars, composerVars, parseVars>>

(***************************************************************************)
(* useFileSearch                                                           *)
(***************************************************************************)
NullWorkspace == "null"
WorkspaceIds == {NullWorkspace, "ws1"}

\* the queries the caller passes
Queries == { Null, <<" ">>, <<"a">>, <<"a", "b">>, <<"a", "b", "c">>, <<"a", "b", " ">> }

\* what searchFiles may resolve to: an array of values, or something else
Responses == { [isArray |-> FALSE, values |-> <<>>],
               [isArray |-> TRUE,  values |-> <<>>],
               [isArray |-> TRUE,  values |-> <<"f1">>],
               [isArray |-> TRUE,  values |-> <<"", "f2">>] }

\* query?.trim() ?? ""
trimmed(q) == IF q = Null THEN <<>> ELSE Trim(q)

\* a gate that forgets the workspace
gated_ignoresWorkspace(q, ws, en) == ~en \/ Len(trimmed(q)) < 1

\* the guard of the effect's early return
gated(q, ws, en) == ~en \/ ws = NullWorkspace \/ Len(trimmed(q)) < 1

\* Array.isArray(response) ? response.map(String).filter(Boolean) : []
normalized(response) ==
    IF response.isArray THEN FilterBoolean(response.values) ELSE <<>>

\* no request has ended yet
NoneEnded == [id |-> 0, kind |-> "none", result |-> <<>>]

NoEvent == [kind |-> "mount", id |-> 0, current |-> TRUE, debug |-> <<>>]

\* cleanup that forgets clearTimeout
cleanup_noClear(ts, h) == ts

\* the effect cleanup: clearTimeout(handle)
cleanup(ts, h) == { t \in ts : t.id # h }

\* the effect body with a gate branch that leaves requestId.current alone
runEffect_gateKeepsId(q, ws, en) ==
    LET cleared == cleanup(timers, handle) IN
    IF gated(q, ws, en)
    THEN /\ requestId' = requestId
         /\ items' = <<>>
         /\ isLoading' = FALSE
         /\ timers' = cleared
         /\ handle' = 0
         /\ ev' = [kind |-> "gate", id |-> requestId, current |-> TRUE, debug |-> <<>>]
    ELSE LET currentId == requestId + 1 IN
         /\ requestId' = currentId
         /\ timers' = cleared \cup {[id |-> currentId, q |-> trimmed(q), ws |-> ws]}
         /\ handle' = currentId
         /\ ev' = [kind |-> "schedule", id |-> currentId, current |-> TRUE, debug |-> <<>>]
         /\ UNCHANGED <<items, isLoading>>

\* the effect body with a schedule branch that reuses the current number
runEffect_reusesId(q, ws, en) ==
    LET cleared == cleanup(timers, handle) IN
    IF gated(q, ws, en)
    THEN /\ requestId' = requestId + 1
         /\ items' = <<>>
         /\ isLoading' = FALSE
         /\ timers' = cleared
         /\ handle' = 0
         /\ ev' = [kind |-> "gate", id |-> requestId + 1, current |-> TRUE, debug |-> <<>>]
    ELSE LET currentId == requestId IN
         /\ requestId' = currentId
         /\ timers' = cleared \cup {[id |-> currentId, q |-> trimmed(q), ws |-> ws]}
         /\ handle' = currentId
         /\ ev' = [kind |-> "schedule", id |-> currentId, current |-> TRUE, debug |-> <<>>]
         /\ UNCHANGED <<items, isLoading>>

\* the effect body, run after its cleanup, for the props (q, ws, en)
runEffect(q, ws, en) ==
    LET cleared == cleanup(timers, handle) IN
    IF gated(q, ws, en)
    THEN /\ requestId' = requestId + 1
         /\ items' = <<>>
         /\ isLoading' = FALSE
         /\ timers' = cleared
         /\ handle' = 0
         /\ ev' = [kind |-> "gate", id |-> requestId + 1, current |-> TRUE, debug |-> <<>>]
    ELSE LET currentId == requestId + 1 IN
         /\ requestId' = currentId
         /\ timers' = cleared \cup {[id |-> currentId, q |-> trimmed(q), ws |-> ws]}
         /\ handle' = currentId
         /\ ev' = [kind |-> "schedule", id |-> currentId, current |-> TRUE, debug |-> <<>>]
         /\ UNCHANGED <<items, isLoading>>

\* a render with a changed query
SetQuery(q) ==
    /\ UNCHANGED <<composerVars, parseVars>>
    /\ mounted
    /\ requestId < MaxRequests
    /\ q # query
    /\ query' = q
    /\ runEffect(q, workspaceId, enabled)
    /\ UNCHANGED <<workspaceId, enabled, inflight, mounted, dispatched, ended>>

\* a render with a changed workspaceId
SetWorkspace(ws) ==
    /\ UNCHANGED <<composerVars, parseVars>>
    /\ mounted
    /\ requestId < MaxRequests
    /\ ws # workspaceId
    /\ workspaceId' = ws
    /\ runEffect(query, ws, enabled)
    /\ UNCHANGED <<query, enabled, inflight, mounted, dispatched, ended>>

\* a render with a changed enabled flag
SetEnabled(en) ==
    /\ UNCHANGED <<composerVars, parseVars>>
    /\ mounted
    /\ requestId < MaxRequests
    /\ en # enabled
    /\ enabled' = en
    /\ runEffect(query, workspaceId, en)
    /\ UNCHANGED <<query, workspaceId, inflight, mounted, dispatched, ended>>

\* a render in which debounceMs, limit or onDebug changed
SetOtherDeps ==
    /\ UNCHANGED <<composerVars, parseVars>>
    /\ mounted
    /\ requestId < MaxRequests
    /\ runEffect(query, workspaceId, enabled)
    /\ UNCHANGED <<query, workspaceId, enabled, inflight, mounted, dispatched, ended>>

\* the setTimeout callback up to its await
TimerFires(t) ==
    /\ UNCHANGED <<composerVars, parseVars>>
    /\ t \in timers
    /\ timers' = timers \ {t}
    /\ isLoading' = TRUE
    /\ inflight' = inflight \cup {[id |-> t.id, q |-> t.q]}
    /\ dispatched' = Append(dispatched, [id |-> t.id, q |-> t.q])
    /\ ev' = [kind |-> "dispatch", id |-> t.id, current |-> (requestId = t.id),
              debug |-> <<"client">>]
    /\ UNCHANGED <<query, workspaceId, enabled, items, requestId, handle, mounted,
                   ended>>

\* a resolution that applies its response without the requestId check
SearchResolves_noCheck(r, response) ==
    /\ UNCHANGED <<composerVars, parseVars>>
    /\ r \in inflight
    /\ inflight' = inflight \ {r}
    /\ ended' = IF requestId # r.id THEN ended
                   ELSE [id |-> r.id, kind |-> "resolve", result |-> normalized(response)]
    /\ items' = normalized(response)
    /\ isLoading' = FALSE
    /\ ev' = [kind |-> "resolve", id |-> r.id, current |-> (requestId = r.id),
              debug |-> <<"server">>]
    /\ UNCHANGED <<query, workspaceId, enabled, requestId, timers, handle, mounted,
                   dispatched>>

\* a resolution whose finally block clears isLoading without the check
SearchResolves_finallyAlways(r, response) ==
    /\ UNCHANGED <<composerVars, parseVars>>
    /\ r \in inflight
    /\ inflight' = inflight \ {r}
    /\ ended' = IF requestId # r.id THEN ended
                   ELSE [id |-> r.id, kind |-> "resolve", result |-> normalized(response)]
    /\ items' = IF requestId # r.id THEN items ELSE normalized(response)
    /\ isLoading' = FALSE
    /\ ev' = [kind |-> "resolve", id |-> r.id, current |-> (requestId = r.id),
              debug |-> IF requestId # r.id THEN <<>> ELSE <<"server">>]
    /\ UNCHANGED <<query, workspaceId, enabled, requestId, timers, handle, mounted,
                   dispatched>>

\* searchFiles resolves: the try block after the await, then finally
SearchResolves(r, response) ==
    /\ UNCHANGED <<composerVars, parseVars>>
    /\ r \in inflight
    /\ inflight' = inflight \ {r}
    /\ ended' = IF requestId # r.id THEN ended
                   ELSE [id |-> r.id, kind |-> "resolve", result |-> normalized(response)]
    /\ IF requestId # r.id
       THEN /\ UNCHANGED <<items, isLoading>>
       ELSE /\ items' = normalized(response)
            /\ isLoading' = FALSE
    /\ ev' = [kind |-> "resolve", id |-> r.id, current |-> (requestId = r.id),
              debug |-> IF requestId # r.id THEN <<>> ELSE <<"server">>]
    /\ UNCHANGED <<query, workspaceId, enabled, requestId, timers, handle, mounted,
                   dispatched>>

\* a catch block that reports the error and leaves the items as they are
SearchRejects_keepsItems(r) ==
    /\ UNCHANGED <<composerVars, parseVars>>
    /\ r \in inflight
    /\ inflight' = inflight \ {r}
    /\ ended' = IF requestId # r.id THEN ended
                   ELSE [id |-> r.id, kind |-> "reject", result |-> <<>>]
    /\ IF requestId # r.id
       THEN /\ UNCHANGED <<items, isLoading>>
       ELSE /\ items' = items
            /\ isLoading' = FALSE
    /\ ev' = [kind |-> "reject", id |-> r.id, current |-> (requestId = r.id),
              debug |-> IF requestId # r.id THEN <<>> ELSE <<"error">>]
    /\ UNCHANGED <<query, workspaceId, enabled, requestId, timers, handle, mounted,
                   dispatched>>

\* a rejection whose finally block is missing: isLoading is left as it is
SearchRejects_leavesLoading(r) ==
    /\ UNCHANGED <<composerVars, parseVars>>
    /\ r \in inflight
    /\ inflight' = inflight \ {r}
    /\ ended' = IF requestId # r.id THEN ended
                   ELSE [id |-> r.id, kind |-> "reject", result |-> <<>>]
    /\ IF requestId # r.id
       THEN /\ UNCHANGED <<items, isLoading>>
       ELSE /\ items' = <<>>
            /\ UNCHANGED isLoading
    /\ ev' = [kind |-> "reject", id |-> r.id, current |-> (requestId = r.id),
              debug |-> IF requestId # r.id THEN <<>> ELSE <<"error">>]
    /\ UNCHANGED <<query, workspaceId, enabled, requestId, timers, handle, mounted,
                   dispatched>>

\* searchFiles rejects: the catch block, then finally
SearchRejects(r) ==
    /\ UNCHANGED <<composerVars, parseVars>>
    /\ r \in inflight
    /\ inflight' = inflight \ {r}
    /\ ended' = IF requestId # r.id THEN ended
                   ELSE [id |-> r.id, kind |-> "reject", result |-> <<>>]
    /\ IF requestId # r.id
       THEN /\ UNCHANGED <<items, isLoading>>
       ELSE /\ items' = <<>>
            /\ isLoading' = FALSE
    /\ ev' = [kind |-> "reject", id |-> r.id, current |-> (requestId = r.id),
              debug |-> IF requestId # r.id THEN <<>> ELSE <<"error">>]
    /\ UNCHANGED <<query, workspaceId, enabled, requestId, timers, handle, mounted,
                   dispatched>>

\* the component unmounts: the last effect's cleanup runs
Unmount ==
    /\ UNCHANGED <<composerVars, parseVars>>
    /\ mounted
    /\ mounted' = FALSE
    /\ timers' = cleanup(timers, handle)
    /\ handle' = 0
    /\ ev' = [kind |-> "unmount", id |-> requestId, current |-> TRUE, debug |-> <<>>]
    /\ UNCHANGED <<query, workspaceId, enabled, items, isLoading, requestId, inflight,
                   dispatched, ended>>

(***************************************************************************)
(* Composer                                                                *)
(***************************************************************************)
MIN_AT_QUERY_LENGTH == 1

\* the characters the user types
Chars == {"/", "@", " ", "\t", "\n", "a"}

\* the catalog the parent passes as slashItems, the lists it passes as fileItems
SlashA  == [id |-> <<"a">>,      insertText |-> <<"/", "a", " ">>]
SlashAA == [id |-> <<"a", "a">>, insertText |-> <<"/", "a", "a">>]
SlashAAA == [id |-> <<"a", "a", "a">>, insertText |-> <<"/", "a", "a", "a">>]
SlashCatalog == <<SlashA, SlashAA, SlashAAA>>
FileA  == [id |-> <<"a">>,      insertText |-> <<"a">>]
FileAS == [id |-> <<"a", " ">>, insertText |-> <<"a", " ">>]
FileLists == { <<>>, <<FileA>>, <<FileAS, FileA>> }

NoAtState == [found |-> FALSE, query |-> <<>>, start |-> 0, end |-> 0]

\* findAtQuery that takes the first "@" of the line instead of the last
findAtQuery_firstAt(t, c, minLength) ==
    IF c < 0 THEN NoAtState
    ELSE
    LET beforeCursor == Slice(t, 0, c)
        lineStart == LastIndexOf(beforeCursor, "\n") + 1
        line == SliceFrom(beforeCursor, lineStart)
        atIndex == IF Includes(line, "@")
                   THEN (CHOOSE i \in 1..Len(line) :
                            line[i] = "@" /\ \A j \in 1..(i - 1) : line[j] # "@") - 1
                   ELSE -1
        afterAt == SliceFrom(line, atIndex + 1)
    IN  IF atIndex < 0 THEN NoAtState
        ELSE IF atIndex > 0 /\ ~IsWhitespace(line[atIndex]) THEN NoAtState
        ELSE IF Includes(afterAt, " ") THEN NoAtState
        ELSE IF Len(afterAt) < minLength THEN NoAtState
        ELSE [found |-> TRUE, query |-> afterAt, start |-> lineStart + atIndex, end |-> c]

findAtQuery(t, c, minLength) ==
    IF c < 0 THEN NoAtState
    ELSE
    LET beforeCursor == Slice(t, 0, c)
        lineStart == LastIndexOf(beforeCursor, "\n") + 1
        line == SliceFrom(beforeCursor, lineStart)
        atIndex == LastIndexOf(line, "@")
        afterAt == SliceFrom(line, atIndex + 1)
    IN  IF atIndex < 0 THEN NoAtState
        ELSE IF atIndex > 0 /\ ~IsWhitespace(line[atIndex]) THEN NoAtState
        ELSE IF Includes(afterAt, " ") THEN NoAtState
        ELSE IF Len(afterAt) < minLength THEN NoAtState
        ELSE [found |-> TRUE, query |-> afterAt, start |-> lineStart + atIndex, end |-> c]

\* filterSlashItems(items, query): the items whose name starts with the query
IsPrefix(pre, s) == Len(pre) <= Len(s) /\ SubSeq(s, 1, Len(pre)) = pre
filterSlashItems(catalog, q) ==
    LET Matches(item) == IsPrefix(q, item.id) IN SelectSeq(catalog, Matches)

\* the useMemo / const values of one render, each from the values it reads
\* slashQuery without the newline test
slashQueryOf_noNewlineTest(t) ==
    IF ~StartsWith(t, "/") THEN Null
    ELSE LET q == SliceFrom(t, 1) IN IF Includes(q, " ") THEN Null ELSE q

slashQueryOf(t) ==
    IF ~StartsWith(t, "/") THEN Null
    ELSE IF Includes(t, "\n") THEN Null
    ELSE LET q == SliceFrom(t, 1) IN IF Includes(q, " ") THEN Null ELSE q

isSlashOpenOf(sq, d) == sq # Null /\ ~d

filteredSlashItemsOf(so, sq) ==
    IF ~so \/ sq = Null THEN <<>> ELSE filterSlashItems(SlashCatalog, sq)

\* atState that runs findAtQuery while the slash trigger is open
atStateOf_ignoresSlash(t, c, d, so) ==
    IF d THEN NoAtState ELSE findAtQuery(t, c, MIN_AT_QUERY_LENGTH)

atStateOf(t, c, d, so) ==
    IF d \/ so THEN NoAtState ELSE findAtQuery(t, c, MIN_AT_QUERY_LENGTH)

atQueryOf(at) == IF at.found THEN at.query ELSE Null

isAtOpenOf(aq, d, so) == aq # Null /\ aq # <<>> /\ ~d /\ ~so

activeItemsOf(so, fsi, ao, fi) == IF so THEN fsi ELSE IF ao THEN fi ELSE <<>>

\* one render of the Composer with state (t, c) and props (d, fi)
renderOf(t, c, d, fi) ==
    LET sq == slashQueryOf(t)
        so == isSlashOpenOf(sq, d)
        fsi == filteredSlashItemsOf(so, sq)
        at == atStateOf(t, c, d, so)
        aq == atQueryOf(at)
        ao == isAtOpenOf(aq, d, so)
    IN  [slashQuery |-> sq, isSlashOpen |-> so, filteredSlashItems |-> fsi,
         atState |-> at, atQuery |-> aq, isAtOpen |-> ao,
         activeItems |-> activeItemsOf(so, fsi, ao, fi),
         isCompletionOpen |-> (so \/ ao)]

\* the values of the current render
slashQuery == render.slashQuery
isSlashOpen == render.isSlashOpen
filteredSlashItems == render.filteredSlashItems
atState == render.atState
atQuery == render.atQuery
isAtOpen == render.isAtOpen
activeItems == render.activeItems
isCompletionOpen == render.isCompletionOpen
canSend == ~disabled /\ Trim(text) # <<>>

\* the effects without the reset effect
effects_noReset(old, new, ci) ==
    LET n == Len(new.activeItems)
        clampRuns == \/ n # Len(old.activeItems)
                     \/ new.isCompletionOpen # old.isCompletionOpen
    IN  IF clampRuns /\ new.isCompletionOpen
        THEN (IF n = 0 THEN 0 ELSE Min(ci, n - 1))
        ELSE ci

\* the effects without the clamp effect
effects_noClamp(old, new, ci) ==
    LET resetRuns == \/ new.atQuery # old.atQuery
                     \/ new.isCompletionOpen # old.isCompletionOpen
                     \/ new.slashQuery # old.slashQuery
    IN  IF resetRuns THEN 0 ELSE ci

\* the two completionIndex effects, run after render new replaced render old,
\* on the index ci the handler left
effects(old, new, ci) ==
    LET n == Len(new.activeItems)
        resetRuns == \/ new.atQuery # old.atQuery
                     \/ new.isCompletionOpen # old.isCompletionOpen
                     \/ new.slashQuery # old.slashQuery
        clampRuns == \/ n # Len(old.activeItems)
                     \/ new.isCompletionOpen # old.isCompletionOpen
        afterReset == IF resetRuns THEN 0 ELSE ci
    IN  IF clampRuns /\ new.isCompletionOpen
        THEN (IF n = 0 THEN 0 ELSE Min(afterReset, n - 1))
        ELSE afterReset

\* a render and its effects without the onAtQueryChange effect
commit_noSignal(t, c, ci, d, fi) ==
    LET old == render
        new == renderOf(t, c, d, fi)
    IN  /\ text' = t
        /\ cursorIndex' = c
        /\ disabled' = d
        /\ fileItems' = fi
        /\ render' = new
        /\ completionIndex' = effects(old, new, ci)
        /\ atSignal' = atSignal

\* a render with new state and props, followed by its effects
commit(t, c, ci, d, fi) ==
    LET old == render
        new == renderOf(t, c, d, fi)
    IN  /\ text' = t
        /\ cursorIndex' = c
        /\ disabled' = d
        /\ fileItems' = fi
        /\ render' = new
        /\ completionIndex' = effects(old, new, ci)
        /\ atSignal' = IF new.atQuery # old.atQuery THEN new.atQuery ELSE atSignal

\* a handler that returns before any setState
noChange ==
    UNCHANGED <<text, cursorIndex, completionIndex, disabled, fileItems, render, atSignal>>

\* applyText(nextText, nextCursor)
applyText(nextText, cursor) == commit(nextText, cursor, 0, disabled, fileItems)

\* what lastOp records: of an edit or a prop change, of a key that the handler
\* let pass because no completion was open (or a send that could not send),
\* and of a key or menu event that the completion handled; prevented tells
\* whether the handler called event.preventDefault(), so that the textarea
\* does not act on the key itself
Edit == [kind |-> "edit", trigger |-> "none", index |-> 0, prevented |-> FALSE]
Ignored == [kind |-> "ignored", trigger |-> "none", index |-> 0, prevented |-> FALSE]
Op(kind, r) ==
    [kind |-> kind,
     trigger |-> IF r.isSlashOpen THEN "slash" ELSE IF r.isAtOpen THEN "mention" ELSE "none",
     index |-> completionIndex,
     prevented |-> kind \in {"next", "previous", "confirm", "dismiss"}]

\* textarea onChange: a character typed at the cursor
TypeChar(ch) ==
    /\ UNCHANGED <<searchVars, parseVars>>
    /\ ~disabled
    /\ Len(text) < MaxLen
    /\ LET nextValue == Slice(text, 0, cursorIndex) \o <<ch>> \o SliceFrom(text, cursorIndex)
       IN  commit(nextValue, cursorIndex + 1, completionIndex, disabled, fileItems)
    /\ lastOp' = Edit

\* textarea onChange: the character before the cursor deleted
Backspace ==
    /\ UNCHANGED <<searchVars, parseVars>>
    /\ ~disabled
    /\ cursorIndex > 0
    /\ LET nextValue == Slice(text, 0, cursorIndex - 1) \o SliceFrom(text, cursorIndex)
       IN  commit(nextValue, cursorIndex - 1, completionIndex, disabled, fileItems)
    /\ lastOp' = Edit

\* textarea onSelect / onClick / onKeyUp: the selection moved to p
MoveCursor(p) ==
    /\ UNCHANGED <<searchVars, parseVars>>
    /\ ~disabled
    /\ p \in 0..Len(text)
    /\ p # cursorIndex
    /\ commit(text, p, completionIndex, disabled, fileItems)
    /\ lastOp' = Edit

\* handleSelectSlashItem that trims the text it inserts
handleSelectSlashItem_trims(item) ==
    applyText(Trim(item.insertText), Len(Trim(item.insertText)))

\* handleSelectSlashItem(item)
handleSelectSlashItem(item) ==
    applyText(item.insertText, Len(item.insertText))

\* handleSelectFileItem that leaves the cursor at the end of the buffer
handleSelectFileItem_cursorAtEnd(item) ==
    LET at == atState IN
    IF ~at.found
    THEN applyText(item.insertText, Len(item.insertText))
    ELSE LET before == Slice(text, 0, at.start)
             after == SliceFrom(text, at.end)
         IN  applyText(before \o item.insertText \o after,
                       Len(before \o item.insertText \o after))

\* handleSelectFileItem(item)
handleSelectFileItem(item) ==
    LET at == atState IN
    IF ~at.found
    THEN applyText(item.insertText, Len(item.insertText))
    ELSE LET before == Slice(text, 0, at.start)
             after == SliceFrom(text, at.end)
         IN  applyText(before \o item.insertText \o after, Len(before) + Len(item.insertText))

\* clearAtQuery that clears the whole buffer
clearAtQuery_clearsAll ==
    IF ~atState.found THEN noChange ELSE applyText(<<>>, 0)

\* clearAtQuery()
clearAtQuery ==
    LET at == atState IN
    IF ~at.found
    THEN noChange
    ELSE LET before == Slice(text, 0, at.start)
             after == SliceFrom(text, at.end)
         IN  applyText(before \o after, at.start)

\* the names of the skills the parent passes
Skills == { <<"a">> }

\* the text handleSelectSkill(name) hands to applyText
skillText(name) ==
    LET snippet == <<"$">> \o name
        trimmedText == Trim(text)
    IN  IF trimmedText = <<>> THEN snippet \o <<" ">>
        ELSE IF IncludesString(trimmedText, snippet) THEN text
        ELSE trimmedText \o <<" ">> \o snippet \o <<" ">>

\* handleSelectSkill(name): applyText without a cursor puts it at the end
handleSelectSkill(name) == applyText(skillText(name), Len(skillText(name)))

\* the skill select's onChange with a non-empty value
SelectSkill(name) ==
    /\ UNCHANGED <<searchVars, parseVars>>
    /\ ~disabled
    /\ Len(skillText(name)) <= MaxLen + 1
    /\ handleSelectSkill(name)
    /\ lastOp' = [kind |-> "skill", trigger |-> "none", index |-> 0, prevented |-> FALSE]

\* onKeyDown, key ArrowDown
KeyArrowDown ==
    /\ UNCHANGED <<searchVars, parseVars>>
    /\ ~disabled
    /\ LET r == render IN
       /\ IF r.isCompletionOpen /\ Len(r.activeItems) > 0
          THEN commit(text, cursorIndex, (completionIndex + 1) % Len(r.activeItems),
                      disabled, fileItems)
          ELSE noChange
       /\ lastOp' = IF r.isCompletionOpen THEN Op("next", r) ELSE Ignored

\* ArrowUp that moves the highlight the way ArrowDown does
KeyArrowUp_forward ==
    /\ UNCHANGED <<searchVars, parseVars>>
    /\ ~disabled
    /\ LET r == render IN
       /\ IF r.isCompletionOpen /\ Len(r.activeItems) > 0
          THEN commit(text, cursorIndex, (completionIndex + 1) % Len(r.activeItems),
                      disabled, fileItems)
          ELSE noChange
       /\ lastOp' = IF r.isCompletionOpen THEN Op("previous", r) ELSE Ignored

\* onKeyDown, key ArrowUp
KeyArrowUp ==
    /\ UNCHANGED <<searchVars, parseVars>>
    /\ ~disabled
    /\ LET r == render IN
       /\ IF r.isCompletionOpen /\ Len(r.activeItems) > 0
          THEN commit(text, cursorIndex,
                      (completionIndex - 1 + Len(r.activeItems)) % Len(r.activeItems),
                      disabled, fileItems)
          ELSE noChange
       /\ lastOp' = IF r.isCompletionOpen THEN Op("previous", r) ELSE Ignored

\* the Enter branch of onKeyDown, in the render r
onKeyDownEnter(r) ==
    IF r.isCompletionOpen /\ Len(r.activeItems) > 0
    THEN IF r.isSlashOpen
         THEN handleSelectSlashItem(r.activeItems[completionIndex + 1])
         ELSE handleSelectFileItem(r.activeItems[completionIndex + 1])
    ELSE noChange

\* onKeyDown, key Enter without the meta key
KeyEnter ==
    /\ UNCHANGED <<searchVars, parseVars>>
    /\ ~disabled
    /\ LET r == render IN
       /\ onKeyDownEnter(r)
       /\ lastOp' = IF r.isCompletionOpen
                    THEN [Op("confirm", r) EXCEPT !.prevented = Len(r.activeItems) > 0]
                    ELSE Ignored

\* Escape that clears the buffer when no completion is open
KeyEscape_clearsWhenClosed ==
    /\ UNCHANGED <<searchVars, parseVars>>
    /\ ~disabled
    /\ LET r == render IN
       /\ IF r.isCompletionOpen
          THEN IF r.isSlashOpen THEN applyText(<<>>, 0) ELSE clearAtQuery
          ELSE applyText(<<>>, 0)
       /\ lastOp' = IF r.isCompletionOpen THEN Op("dismiss", r) ELSE Ignored

\* onKeyDown, key Escape
KeyEscape ==
    /\ UNCHANGED <<searchVars, parseVars>>
    /\ ~disabled
    /\ LET r == render IN
       /\ IF r.isCompletionOpen
          THEN IF r.isSlashOpen THEN applyText(<<>>, 0) ELSE clearAtQuery
          ELSE noChange
       /\ lastOp' = IF r.isCompletionOpen THEN Op("dismiss", r) ELSE Ignored

\* onKeyDown, any other key without the meta key: no branch is taken
KeyOther ==
    /\ UNCHANGED <<searchVars, parseVars>>
    /\ ~disabled
    /\ noChange
    /\ lastOp' = Ignored

\* SlashMenu onMouseEnter on the item at index
MenuHover(index) ==
    /\ UNCHANGED <<searchVars, parseVars>>
    /\ LET r == render IN
       /\ r.isCompletionOpen
       /\ index \in 0..(Len(r.activeItems) - 1)
       /\ commit(text, cursorIndex, index, disabled, fileItems)
       /\ lastOp' = [Op("hover", r) EXCEPT !.index = index]

\* a click that applies the highlighted item instead of the clicked one
MenuClick_appliesHighlighted(index) ==
    /\ UNCHANGED <<searchVars, parseVars>>
    /\ LET r == render IN
       /\ r.isCompletionOpen
       /\ index \in 0..(Len(r.activeItems) - 1)
       /\ IF r.isSlashOpen
          THEN handleSelectSlashItem(r.filteredSlashItems[completionIndex + 1])
          ELSE handleSelectFileItem(fileItems[completionIndex + 1])
       /\ lastOp' = [Op("click", r) EXCEPT !.index = index]

\* SlashMenu onClick on the item at index
MenuClick(index) ==
    /\ UNCHANGED <<searchVars, parseVars>>
    /\ LET r == render IN
       /\ r.isCompletionOpen
       /\ index \in 0..(Len(r.activeItems) - 1)
       /\ IF r.isSlashOpen
          THEN handleSelectSlashItem(r.filteredSlashItems[index + 1])
          ELSE handleSelectFileItem(fileItems[index + 1])
       /\ lastOp' = [Op("click", r) EXCEPT !.index = index]

\* handleSend without setCursorIndex(0)
Send_keepsCursor ==
    /\ UNCHANGED <<searchVars, parseVars>>
    /\ ~disabled
    /\ IF canSend
       THEN commit(<<>>, cursorIndex, completionIndex, disabled, fileItems)
       ELSE noChange
    /\ lastOp' = IF canSend THEN Op("send", render) ELSE Ignored

\* handleSend: the send button, or Enter with the meta key
Send ==
    /\ UNCHANGED <<searchVars, parseVars>>
    /\ ~disabled
    /\ IF canSend
       THEN commit(<<>>, 0, completionIndex, disabled, fileItems)
       ELSE noChange
    /\ lastOp' = IF canSend THEN Op("send", render) ELSE Ignored

\* the parent re-renders the Composer with another disabled flag
SetDisabled(d) ==
    /\ UNCHANGED <<searchVars, parseVars>>
    /\ d # disabled
    /\ commit(text, cursorIndex, completionIndex, d, fileItems)
    /\ lastOp' = Edit

\* the parent re-renders the Composer with another list of files
SetFileItems(fi) ==
    /\ UNCHANGED <<searchVars, parseVars>>
    /\ fi # fileItems
    /\ commit(text, cursorIndex, completionIndex, disabled, fi)
    /\ lastOp' = Edit

ComposerNext ==
    \/ \E ch \in Chars : TypeChar(ch)
    \/ Backspace
    \/ \E p \in 0..MaxLen : MoveCursor(p)
    \/ KeyArrowDown
    \/ KeyArrowUp
    \/ KeyEnter
    \/ KeyEscape
    \/ KeyOther
    \/ \E index \in 0..2 : MenuHover(index)
    \/ \E index \in 0..2 : MenuClick(index)
    \/ Send
    \/ \E name \in Skills : SelectSkill(name)
    \/ \E d \in BOOLEAN : SetDisabled(d)
    \/ \E fi \in FileLists : SetFileItems(fi)

(***************************************************************************)
(* findAtQuery applied to arbitrary arguments                              *)
(***************************************************************************)
Texts(n) == UNION { [1..k -> Chars] : k \in 0..n }

ApplyFindAtQuery ==
    /\ UNCHANGED <<searchVars, composerVars>>
    /\ ~parseOut.done
    /\ parseOut' = [done |-> TRUE,
                    result |-> findAtQuery(parseIn.text, parseIn.cursorIndex,
                                           parseIn.minLength)]
    /\ UNCHANGED parseIn

ParseNext == ApplyFindAtQuery

(***************************************************************************)
(* Specifications                                                          *)
(***************************************************************************)
\* useFileSearch after its mount and first effect, for any initial props
SearchInit ==
    /\ query \in Queries
    /\ workspaceId \in WorkspaceIds
    /\ enabled \in BOOLEAN
    /\ items = <<>>
    /\ isLoading = FALSE
    /\ requestId = 1
    /\ timers = IF gated(query, workspaceId, enabled) THEN {}
                ELSE {[id |-> 1, q |-> trimmed(query), ws |-> workspaceId]}
    /\ handle = IF gated(query, workspaceId, enabled) THEN 0 ELSE 1
    /\ inflight = {}
    /\ mounted = TRUE
    /\ dispatched = <<>>
    /\ ended = NoneEnded
    /\ ev = NoEvent
    \* the Composer and findAtQuery take no part
    /\ text = <<>>
    /\ cursorIndex = 0
    /\ completionIndex = 0
    /\ disabled = FALSE
    /\ fileItems = <<>>
    /\ render = renderOf(<<>>, 0, FALSE, <<>>)
    /\ atSignal = Null
    /\ lastOp = Edit
    /\ parseIn = [text |-> <<>>, cursorIndex |-> 0, minLength |-> 1]
    /\ parseOut = [done |-> FALSE, result |-> NoAtState]

\* the Composer after its first render: useState initial values
ComposerInit ==
    /\ text = <<>>
    /\ cursorIndex = 0
    /\ completionIndex = 0
    /\ disabled = FALSE
    /\ fileItems \in FileLists
    /\ render = renderOf(text, cursorIndex, disabled, fileItems)
    /\ atSignal = Null
    /\ lastOp = Edit
    \* useFileSearch and findAtQuery take no part
    /\ query = Null
    /\ workspaceId = NullWorkspace
    /\ enabled = TRUE
    /\ items = <<>>
    /\ isLoading = FALSE
    /\ requestId = 1
    /\ timers = {}
    /\ handle = 0
    /\ inflight = {}
    /\ mounted = TRUE
    /\ dispatched = <<>>
    /\ ended = NoneEnded
    /\ ev = NoEvent
    /\ parseIn = [text |-> <<>>, cursorIndex |-> 0, minLength |-> 1]
    /\ parseOut = [done |-> FALSE, result |-> NoAtState]

\* any arguments of findAtQuery
ParseInit ==
    /\ parseIn \in [text : Texts(MaxParseLen),
                    cursorIndex : (-1)..(MaxParseLen + 1),
                    minLength : 0..2]
    /\ parseOut = [done |-> FALSE, result |-> NoAtState]
    \* useFileSearch and the Composer take no part
    /\ query = Null
    /\ workspaceId = NullWorkspace
    /\ enabled = TRUE
    /\ items = <<>>
    /\ isLoading = FALSE
    /\ requestId = 1
    /\ timers = {}
    /\ handle = 0
    /\ inflight = {}
    /\ mounted = TRUE
    /\ dispatched = <<>>
    /\ ended = NoneEnded
    /\ ev = NoEvent
    /\ text = <<>>
    /\ cursorIndex = 0
    /\ completionIndex = 0
    /\ disabled = FALSE
    /\ fileItems = <<>>
    /\ render = renderOf(<<>>, 0, FALSE, <<>>)
    /\ atSignal = Null
    /\ lastOp = Edit

SearchNext ==
    \/ \E q \in Queries : SetQuery(q)
    \/ \E ws \in WorkspaceIds : SetWorkspace(ws)
    \/ \E en \in BOOLEAN : SetEnabled(en)
    \/ SetOtherDeps
    \/ \E t \in timers : TimerFires(t)
    \/ \E r \in inflight, response \in Responses : SearchResolves(r, response)
    \/ \E r \in inflight : SearchRejects(r)
    \/ Unmount

SearchSpec ==
    /\ SearchInit
    /\ [][SearchNext]_vars

\* the hook under a running event loop: a pending timer fires (line 38), and
\* a searchFiles call that was made ends, by resolving or by rejecting (line 48)
SearchFairSpec ==
    /\ SearchInit
    /\ [][SearchNext]_vars
    /\ WF_vars(\E t \in timers : TimerFires(t))
    /\ WF_vars(\E r \in inflight :
                  \/ \E response \in Responses : SearchResolves(r, response)
                  \/ SearchRejects(r))

ComposerSpec ==
    /\ ComposerInit
    /\ [][ComposerNext]_vars

ParseSpec ==
    /\ ParseInit
    /\ [][ParseNext]_vars

(***************************************************************************)
(* The Composer wired to useFileSearch.  The parent component that does    *)
(* the wiring and the search service are not among the sources; they are   *)
(* modelled after the specification's sections 4.2 and 6: the query of the *)
(* search is the currentMentionQuery signal, the file candidates are the   *)
(* paths the search returned, each inserted as it is.                      *)
(***************************************************************************)
\* the characters the user types in the wired composer
WiredChars == {"@", "a"}

\* the search service: for each query the paths it finds, the same each time
searchFiles(q) ==
    [isArray |-> TRUE,
     values |-> IF q = <<"a">> THEN <<"a1">>
                ELSE IF q = <<"a", "a">> THEN <<"a2">>
                ELSE <<>>]

\* a path as characters of the buffer
pathChars(v) ==
    IF v = "a1" THEN <<"a", "1">> ELSE IF v = "a2" THEN <<"a", "2">> ELSE <<v>>

\* the candidates the parent makes of the hook's items
toFileItems(paths) ==
    [i \in 1..Len(paths) |->
        [id |-> pathChars(paths[i]), insertText |-> pathChars(paths[i])]]

\* the parent has passed on the signal and the items
wired == query = atSignal /\ fileItems = toFileItems(items)

\* the parent re-renders the hook with the query the Composer signalled
PropagateQuery ==
    /\ query # atSignal
    /\ SetQuery(atSignal)

\* the parent re-renders the Composer with the hook's items
PropagateItems ==
    /\ fileItems # toFileItems(items)
    /\ SetFileItems(toFileItems(items))

\* the Composer and the hook after their first render and effects
WiredInit ==
    /\ text = <<>>
    /\ cursorIndex = 0
    /\ completionIndex = 0
    /\ disabled = FALSE
    /\ fileItems = <<>>
    /\ render = renderOf(<<>>, 0, FALSE, <<>>)
    /\ atSignal = Null
    /\ lastOp = Edit
    /\ query = Null
    /\ workspaceId = "ws1"
    /\ enabled = TRUE
    /\ items = <<>>
    /\ isLoading = FALSE
    /\ requestId = 1
    /\ timers = {}
    /\ handle = 0
    /\ inflight = {}
    /\ mounted = TRUE
    /\ dispatched = <<>>
    /\ ended = NoneEnded
    /\ ev = NoEvent
    \* findAtQuery as a pure function takes no part
    /\ parseIn = [text |-> <<>>, cursorIndex |-> 0, minLength |-> 1]
    /\ parseOut = [done |-> FALSE, result |-> NoAtState]

WiredNext ==
    \/ PropagateQuery
    \/ PropagateItems
    \/ wired /\ \E ch \in WiredChars : TypeChar(ch)
    \/ wired /\ Backspace
    \/ wired /\ \E p \in 0..MaxLen : MoveCursor(p)
    \/ wired /\ KeyEnter
    \/ wired /\ KeyEscape
    \/ wired /\ \E index \in 0..2 : MenuClick(index)
    \/ wired /\ \E t \in timers : TimerFires(t)
    \/ wired /\ \E r \in inflight : SearchResolves(r, searchFiles(r.q))
    \/ wired /\ \E r \in inflight : SearchRejects(r)

WiredSpec ==
    /\ WiredInit
    /\ [][WiredNext]_vars

(***************************************************************************)
(* Properties of useFileSearch                                             *)
(***************************************************************************)

\* C1: a completed request (success or failure) changes the displayed items
\* only if the sequence number it carries equals requestId.current at the
\* moment it completes; a superseded response leaves items as they are.
C1_StaleResponseDiscarded ==
    [][ (ev'.kind \in {"resolve", "reject"} /\ ev'.id # requestId) => items' = items ]_vars

\* "ab" then "abc" were dispatched, the response to "abc" is displayed, and
\* the response to "ab" has resolved after it
C1_Witness ==
    /\ dispatched = << [id |-> 1, q |-> <<"a", "b">>], [id |-> 2, q |-> <<"a", "b", "c">>] >>
    /\ ev.kind = "resolve"
    /\ ev.id = 1
    /\ requestId = 2
    /\ inflight = {}
    /\ items = <<"f1">>

\* C2: at most one debounce timer is pending, the pending timer belongs to
\* the latest query, a superseded timer never fires, and each sequence
\* number is dispatched at most once: a burst of query changes made while a
\* timer is pending dispatches one search, carrying the last query.
C2_Debounce ==
    /\ Cardinality(timers) <= 1
    /\ \A t \in timers : t.id = requestId /\ t.q = trimmed(query)
    /\ ev.kind = "dispatch" =>
          /\ ev.id = requestId
          /\ dispatched[Len(dispatched)].id = requestId
          /\ dispatched[Len(dispatched)].q = trimmed(query)
          /\ timers = {}
    /\ \A i, j \in 1..Len(dispatched) : i < j => dispatched[i].id < dispatched[j].id

\* the burst "a", "ab", "abc" followed by the one dispatch, for "abc"
C2_Witness ==
    /\ ev.kind = "dispatch"
    /\ requestId = 3
    /\ dispatched = << [id |-> 3, q |-> <<"a", "b", "c">>] >>

\* C3: while the query is null or trims to empty the displayed items are
\* empty and isLoading is false, from the render that closes the trigger on
\* and across the resolution of any request that was in flight.
C3_ClosedTriggerShowsNothing ==
    (query = Null \/ \A i \in 1..Len(query) : IsWhitespace(query[i]))
        => (items = <<>> /\ isLoading = FALSE)

\* a request that was in flight when the query closed has resolved
C3_Witness ==
    /\ query = Null
    /\ ev.kind \in {"resolve", "reject"}
    /\ ev.id < requestId
    /\ mounted

\* C4: once the hook is unmounted no in-flight request carries the current
\* sequence number, so no resolution passes the staleness check.
C4_UnmountInvalidates ==
    ~mounted => \A r \in inflight : r.id # requestId
(***************************************************************************)
(* Properties of the Composer                                              *)
(***************************************************************************)

\* C5: at most one trigger is active: isSlashOpen and isAtOpen are never
\* both true, and while the slash trigger is active atState is null, also
\* when a well-formed "@" query stands before the cursor.
C5_AtMostOneTrigger ==
    /\ ~(isSlashOpen /\ isAtOpen)
    /\ isSlashOpen => ~atState.found

\* the slash trigger is open on a buffer in which findAtQuery finds a query
C5_Witness ==
    /\ isSlashOpen
    /\ findAtQuery(text, cursorIndex, MIN_AT_QUERY_LENGTH).found

\* C6: in an enabled composer the slash trigger is active iff the buffer
\* starts with "/", holds no newline and holds no space after the "/"; its
\* query is then the buffer without the leading "/", whatever the cursor.
C6_SlashDetection ==
    ~disabled =>
        LET matches == /\ Len(text) >= 1
                       /\ text[1] = "/"
                       /\ \A i \in 1..Len(text) : text[i] # "\n"
                       /\ \A i \in 2..Len(text) : text[i] # " "
        IN  /\ isSlashOpen <=> matches
            /\ matches => slashQuery = SubSeq(text, 2, Len(text))
            /\ ~matches => slashQuery = Null

\* the slash trigger is open with a query while the cursor is inside the buffer
C6_Witness ==
    /\ isSlashOpen
    /\ Len(slashQuery) >= 2
    /\ cursorIndex < Len(text)

\* C7: findAtQuery returns a trigger iff the last "@" of the cursor's line
\* before the cursor is at the line start or follows a whitespace character,
\* no space stands between it and the cursor, and at least minLength
\* characters do; then query is the text between that "@" and the cursor,
\* start the index of the "@" and end the cursor index.
C7_FindAtQuery ==
    parseOut.done =>
        LET t == parseIn.text
            c == parseIn.cursorIndex
            cc == IF c < 0 THEN 0 ELSE IF c > Len(t) THEN Len(t) ELSE c
            \* 1-based positions of an "@" before the cursor with neither a
            \* newline nor another "@" between it and the cursor
            lastAts == { a \in 1..cc : /\ t[a] = "@"
                                        /\ \A j \in (a + 1)..cc : t[j] \notin {"@", "\n"} }
            passes(a) == /\ a = 1 \/ t[a - 1] \in {" ", "\t", "\n"}
                         /\ \A j \in (a + 1)..cc : t[j] # " "
                         /\ cc - a >= parseIn.minLength
            r == parseOut.result
        IN  /\ r.found <=> (c >= 0 /\ \E a \in lastAts : passes(a))
            /\ r.found => \A a \in lastAts :
                              /\ r.query = SubSeq(t, a + 1, cc)
                              /\ r.start = a - 1
                              /\ r.end = c

\* a trigger found after the start of the text, with text after the cursor
\* and a query of just the minimum length
C7_Witness ==
    /\ parseOut.done
    /\ parseOut.result.found
    /\ parseOut.result.start > 0
    /\ parseIn.cursorIndex < Len(parseIn.text)
    /\ parseIn.minLength = Len(parseOut.result.query)

\* C8: selecting a candidate (Enter or click) while a mention trigger with
\* span [start, end) is active yields text[0..start) + insertText +
\* text[end..] with the cursor at start + length(insertText); while a slash
\* trigger is active it yields insertText with the cursor at its end; in
\* both cases completionIndex becomes 0.
C8_Application ==
    [][ (lastOp'.kind \in {"confirm", "click"} /\ isCompletionOpen /\ Len(activeItems) > 0) =>
          LET index == IF lastOp'.kind = "click" THEN lastOp'.index ELSE completionIndex
              insertText == activeItems[index + 1].insertText
          IN  /\ isAtOpen =>
                    /\ text' = SubSeq(text, 1, atState.start) \o insertText
                                   \o SubSeq(text, atState.end + 1, Len(text))
                    /\ cursorIndex' = atState.start + Len(insertText)
              /\ isSlashOpen =>
                    /\ text' = insertText
                    /\ cursorIndex' = Len(insertText)
              /\ completionIndex' = 0
      ]_vars

\* a file was inserted in place of "@a" between a space and a space
C8_Witness ==
    /\ lastOp.kind = "confirm"
    /\ lastOp.trigger = "mention"
    /\ lastOp.index = 1
    /\ text = <<" ", "a", " ">>
    /\ cursorIndex = 2

\* C9: Escape while a slash trigger is open empties the buffer and puts the
\* cursor at 0; while a mention trigger with span [start, end) is open it
\* removes exactly that span and puts the cursor at start.
C9_Dismiss ==
    [][ (lastOp'.kind = "dismiss" /\ isCompletionOpen) =>
          /\ isSlashOpen => (text' = <<>> /\ cursorIndex' = 0)
          /\ isAtOpen =>
                /\ text' = SubSeq(text, 1, atState.start)
                               \o SubSeq(text, atState.end + 1, Len(text))
                /\ cursorIndex' = atState.start
      ]_vars

\* "a @a" dismissed: "a " is left, with the cursor at 2
C9_Witness ==
    /\ lastOp.kind = "dismiss"
    /\ lastOp.trigger = "mention"
    /\ text = <<"a", " ">>
    /\ cursorIndex = 2

\* C10 as claimed: after Enter on an open completion with candidates, no
\* trigger is active on the resulting buffer and cursor.
C10_ConfirmCloses ==
    [][ (lastOp'.kind = "confirm" /\ isCompletionOpen /\ Len(activeItems) > 0)
            => ~isCompletionOpen' ]_vars

\* C10 amended: after Enter on an open completion with candidates, no
\* trigger is active on the resulting buffer and cursor when the applied
\* candidate's insertText ends with a space.
C10_ConfirmClosesAfterSpace ==
    [][ (/\ lastOp'.kind = "confirm"
         /\ isCompletionOpen
         /\ Len(activeItems) > 0
         /\ LET insertText == activeItems[completionIndex + 1].insertText
            IN  insertText[Len(insertText)] = " ")
            => ~isCompletionOpen' ]_vars

\* a candidate ending with a space was applied to a mention trigger, and
\* the completion is closed
C10_Witness ==
    /\ lastOp.kind = "confirm"
    /\ lastOp.trigger = "mention"
    /\ cursorIndex >= 2
    /\ text[cursorIndex] = " "
    /\ ~isCompletionOpen

(***************************************************************************)
(* Properties of the displayed candidates and the highlighted index        *)
(***************************************************************************)

\* C11: while a search for the current query is pending or in flight (its
\* debounce timer is set, its request awaits its response, or isLoading is
\* true) the items the hook returns for display are empty.
C11_EmptyWhileLoading ==
    (\/ isLoading
     \/ \E t \in timers : t.id = requestId
     \/ \E r \in inflight : r.id = requestId)
        => items = <<>>

\* C12: after every event and its effects completionIndex is in range: with
\* candidates it lies in 0..activeItems.length - 1, without candidates it
\* is 0; also after fileItems was replaced by a shorter list.
C12_IndexInRange ==
    IF Len(activeItems) > 0
    THEN completionIndex \in 0..(Len(activeItems) - 1)
    ELSE completionIndex = 0

\* ArrowUp on the first of two files moved the highlight to the last one
C12_Witness ==
    /\ lastOp.kind = "previous"
    /\ lastOp.trigger = "mention"
    /\ lastOp.index = 0
    /\ Len(activeItems) = 2
    /\ completionIndex = 1

\* C13: a step that changes the active trigger's query, its kind, or whether
\* a completion is open at all leaves completionIndex at 0, whatever index
\* was highlighted before.
C13_ResetOnChange ==
    [][ LET activeTrigger(r) ==
                IF r.isSlashOpen THEN <<"slash", r.slashQuery>>
                ELSE IF r.isAtOpen THEN <<"mention", r.atQuery>>
                ELSE <<"none">>
        IN  activeTrigger(render') # activeTrigger(render) => completionIndex' = 0
      ]_vars

\* the message was sent while the second file of a mention was highlighted:
\* the completion closed without applyText, and the index is 0
C13_Witness ==
    /\ lastOp.kind = "send"
    /\ lastOp.trigger = "mention"
    /\ lastOp.index = 1
    /\ ~isCompletionOpen
    /\ completionIndex = 0

\* C14: ArrowDown on an open completion with n > 0 candidates moves the
\* highlight from i to (i + 1) mod n, ArrowUp to (i - 1 + n) mod n; with no
\* candidates the highlight stays; neither changes the buffer or the cursor.
C14_NavigationWrap ==
    [][ (lastOp'.kind \in {"next", "previous"} /\ isCompletionOpen) =>
          LET n == Len(activeItems)
              i == completionIndex
          IN  /\ (n > 0 /\ lastOp'.kind = "next") => completionIndex' = (i + 1) % n
              /\ (n > 0 /\ lastOp'.kind = "previous") => completionIndex' = (i - 1 + n) % n
              /\ n = 0 => completionIndex' = i
              /\ text' = text
              /\ cursorIndex' = cursorIndex
      ]_vars

\* ArrowDown on the last of three slash items moved the highlight to the first
C14_Witness ==
    /\ lastOp.kind = "next"
    /\ lastOp.trigger = "slash"
    /\ lastOp.index = 2
    /\ Len(activeItems) = 3
    /\ completionIndex = 0

(***************************************************************************)
(* Properties of the search hook's failure, gate, loading flag and counter *)
(***************************************************************************)

\* C15: when the request that carries the current sequence number fails,
\* items become empty, isLoading becomes false and exactly one entry, of
\* source "error", goes to onDebug; the buffer, the cursor, the disabled
\* flag and canSend are as before, and so are the hook's props and counter:
\* nothing is entered that a later query would have to leave.
C15_FailurePolicy ==
    [][ (ev'.kind = "reject" /\ ev'.id = requestId) =>
          /\ items' = <<>>
          /\ isLoading' = FALSE
          /\ ev'.debug = <<"error">>
          /\ text' = text
          /\ cursorIndex' = cursorIndex
          /\ disabled' = disabled
          /\ canSend' = canSend
          /\ UNCHANGED <<query, workspaceId, enabled, requestId, timers, mounted>>
      ]_vars

\* the current request failed after the one before it had failed or succeeded
C15_Witness ==
    /\ ev.kind = "reject"
    /\ ev.current
    /\ ev.debug = <<"error">>
    /\ Len(dispatched) = 2
    /\ ev.id = dispatched[2].id
    /\ items = <<>>
    /\ ~isLoading
    /\ mounted

\* C16: while the query is null or trims to nothing, or workspaceId is null,
\* or enabled is false, no debounce timer is set, the last step was not a
\* dispatch, no dispatched request carries the current sequence number,
\* items are empty and isLoading is false; and no search was ever
\* dispatched with an empty query.
C16_Gate ==
    /\ (\/ query = Null
        \/ \A i \in 1..Len(query) : query[i] \in {" ", "\t", "\n"}
        \/ workspaceId = NullWorkspace
        \/ ~enabled)
          => /\ timers = {}
             /\ ev.kind # "dispatch"
             /\ \A i \in 1..Len(dispatched) : dispatched[i].id # requestId
             /\ items = <<>>
             /\ isLoading = FALSE
    /\ \A i \in 1..Len(dispatched) : Len(dispatched[i].q) >= 1

\* the workspace became null while the search for "a" was in flight, and
\* that search has resolved
C16_Witness ==
    /\ workspaceId = NullWorkspace
    /\ query = <<"a">>
    /\ enabled
    /\ ev.kind = "resolve"
    /\ ~ev.current
    /\ mounted

(***************************************************************************)
(* Properties of the Composer's signal and menu events                     *)
(***************************************************************************)

\* C17: after every event and its effects the last value passed to
\* onAtQueryChange is the query of the active mention trigger, and null when
\* none is active: when the composer is disabled, when the buffer is a
\* slash command, and when no "@" query stands before the cursor.
C17_MentionSignal ==
    LET slashActive == /\ Len(text) >= 1
                       /\ text[1] = "/"
                       /\ \A i \in 1..Len(text) : text[i] # "\n"
                       /\ \A i \in 2..Len(text) : text[i] # " "
        at == findAtQuery(text, cursorIndex, MIN_AT_QUERY_LENGTH)
        mentionActive == ~disabled /\ ~slashActive /\ at.found
    IN  /\ atSignal = IF mentionActive THEN at.query ELSE Null
        /\ mentionActive <=> isAtOpen

\* Escape removed the mention query from a buffer that keeps other text:
\* the signal is null again
C17_Witness ==
    /\ lastOp.kind = "dismiss"
    /\ lastOp.trigger = "mention"
    /\ text # <<>>
    /\ ~isAtOpen
    /\ atSignal = Null

\* C18: hovering the item at index i sets completionIndex to i and changes
\* neither the buffer, the cursor nor the candidates; clicking the item at
\* index i and pressing Enter while i is highlighted both yield the buffer,
\* cursor and index that applying candidate i to the state yields, and a
\* click on the highlighted item is itself a step of the Enter handler: a
\* click equals a hover followed by Enter.
C18_MenuEvents ==
    [][ LET applied(i) ==
                LET insertText == activeItems[i + 1].insertText IN
                IF isSlashOpen
                THEN <<insertText, Len(insertText), 0>>
                ELSE <<SubSeq(text, 1, atState.start) \o insertText
                           \o SubSeq(text, atState.end + 1, Len(text)),
                       atState.start + Len(insertText), 0>>
            outcome == <<text', cursorIndex', completionIndex'>>
        IN  /\ lastOp'.kind = "hover" =>
                  /\ completionIndex' = lastOp'.index
                  /\ text' = text
                  /\ cursorIndex' = cursorIndex
                  /\ render' = render
                  /\ fileItems' = fileItems
            /\ lastOp'.kind = "click" => outcome = applied(lastOp'.index)
            /\ (lastOp'.kind = "confirm" /\ Len(activeItems) > 0)
                  => outcome = applied(completionIndex)
            /\ (lastOp'.kind = "click" /\ completionIndex = lastOp'.index)
                  => onKeyDownEnter(render)
      ]_vars

\* the second of two files was clicked on the buffer "@a"
C18_Witness ==
    /\ lastOp.kind = "click"
    /\ lastOp.trigger = "mention"
    /\ lastOp.index = 1
    /\ text = <<"a">>
    /\ cursorIndex = 1
    /\ completionIndex = 0

(***************************************************************************)
(* Properties of the loading flag and the sequence counter                 *)
(***************************************************************************)

\* C19: isLoading goes from false to true only in the step that dispatches
\* a request, which always sets it, and never in a step that takes a new
\* query, waits, or short-circuits at the gate; the resolution or failure
\* of a request whose sequence number is not current leaves isLoading as
\* it is.
C19_LoadingFlag ==
    [][ /\ (~isLoading /\ isLoading') => ev'.kind = "dispatch"
        /\ ev'.kind = "dispatch" => (isLoading' /\ Len(dispatched') = Len(dispatched) + 1)
        /\ ev'.kind \in {"gate", "schedule"} => (isLoading' => isLoading)
        /\ (ev'.kind \in {"resolve", "reject"} /\ ev'.id # requestId)
              => isLoading' = isLoading
      ]_vars

\* a superseded request has resolved while the current one is in flight,
\* and isLoading is still true
C19_Witness ==
    /\ ev.kind = "resolve"
    /\ ~ev.current
    /\ isLoading
    /\ \E r \in inflight : r.id = requestId

\* C20: requestId.current never decreases; a step that changes the query,
\* the workspace or the enabled flag, or otherwise re-runs the effect, adds
\* exactly 1 to it, also when the gate short-circuits, and no other step
\* changes it; the numbers of the dispatched requests strictly increase in
\* dispatch order, and at most one request in flight carries the current
\* number.
C20_SequenceCounter ==
    [][ /\ requestId' >= requestId
        /\ (query' # query \/ workspaceId' # workspaceId \/ enabled' # enabled)
              => requestId' = requestId + 1
        /\ ev'.kind \in {"gate", "schedule"} => requestId' = requestId + 1
        /\ ev'.kind \notin {"gate", "schedule"} => requestId' = requestId
        /\ \A i, j \in 1..Len(dispatched') :
              i < j => dispatched'[i].id < dispatched'[j].id
        /\ Cardinality({ r \in inflight' : r.id = requestId' }) <= 1
      ]_vars

\* requests 1 and 3 were dispatched, 2 was superseded before its timer
\* fired, and the fourth effect run hit the gate
C20_Witness ==
    /\ Len(dispatched) = 2
    /\ dispatched[1].id = 1
    /\ dispatched[2].id = 3
    /\ ev.kind = "gate"
    /\ requestId = 4

(***************************************************************************)
(* Properties of the keys the completion handles                           *)
(***************************************************************************)

\* C21: Enter on an open completion without candidates is a no-op: the
\* handler changes neither the buffer, the cursor, the active trigger nor
\* completionIndex, and it consumes the key, so that the textarea does not
\* insert a line break into the buffer either.
C21_ConfirmEmptyNoOp ==
    [][ (lastOp'.kind = "confirm" /\ isCompletionOpen /\ Len(activeItems) = 0) =>
          /\ text' = text
          /\ cursorIndex' = cursorIndex
          /\ completionIndex' = completionIndex
          /\ render' = render
          /\ lastOp'.prevented
      ]_vars

\* C22: while no completion is open, the ArrowDown, ArrowUp, Enter and
\* Escape handlers change neither the buffer, the cursor nor
\* completionIndex and do not consume the key; a key the handler lets pass,
\* in any state, changes nothing and is not consumed; and a typed character
\* arrives in the buffer at the cursor also while a completion is open.
C22_ActsOnlyWhileOpen ==
    [][ /\ ~isCompletionOpen =>
              /\ lastOp'.kind \notin {"next", "previous", "confirm", "dismiss"}
              /\ ~lastOp'.prevented
        /\ lastOp'.kind = "ignored" =>
              /\ text' = text
              /\ cursorIndex' = cursorIndex
              /\ completionIndex' = completionIndex
              /\ render' = render
              /\ ~lastOp'.prevented
        /\ (lastOp'.kind = "edit" /\ Len(text') = Len(text) + 1) =>
              /\ cursorIndex' = cursorIndex + 1
              /\ SubSeq(text', 1, cursorIndex) = SubSeq(text, 1, cursorIndex)
              /\ SubSeq(text', cursorIndex + 2, Len(text'))
                    = SubSeq(text, cursorIndex + 1, Len(text))
      ]_vars

\* a key was pressed on a buffer with text in which no trigger is active
C22_Witness ==
    /\ lastOp.kind = "ignored"
    /\ ~isCompletionOpen
    /\ ~disabled
    /\ Trim(text) # <<>>
    /\ cursorIndex > 0

\* C23: Escape on an open completion closes it: on the buffer and cursor it
\* leaves no slash and no mention trigger is active, and the value last
\* passed to onAtQueryChange is null.
C23_DismissCloses ==
    [][ (lastOp'.kind = "dismiss" /\ isCompletionOpen) =>
          /\ ~isCompletionOpen'
          /\ atSignal' = Null
      ]_vars

(***************************************************************************)
(* Properties of the Composer wired to useFileSearch                       *)
(***************************************************************************)

\* C24: Enter or a click on a mention trigger applies only a candidate that
\* the search service returns for the trigger's query at that moment, never
\* one it returned for an earlier query.
C24_AppliesCurrentResults ==
    [][ (lastOp'.kind \in {"confirm", "click"} /\ isAtOpen /\ Len(activeItems) > 0) =>
          LET index == IF lastOp'.kind = "click" THEN lastOp'.index ELSE completionIndex
              found == toFileItems(normalized(searchFiles(trimmed(atQuery))))
          IN  \E i \in 1..Len(found) : found[i] = activeItems[index + 1]
      ]_vars

\* C25: eventual settling.  Once the props of a mounted hook stop changing,
\* and given that pending timers fire and every searchFiles call ends,
\* isLoading is eventually false for good and the displayed items are, for
\* good, the normalized response to the request carrying the current
\* sequence number: empty when that request failed, and empty when the last
\* props are gated.  isLoading never stays true forever.
C25_EventualSettling ==
    <>[](mounted =>
           /\ ~isLoading
           /\ IF ~enabled \/ workspaceId = NullWorkspace \/ Len(trimmed(query)) < 1
              THEN items = <<>>
              ELSE /\ ended.id = requestId
                   /\ items = ended.result
                   /\ ended.kind = "reject" => items = <<>>)

\* the second of two dispatched requests has resolved with ["", "f2"]; no
\* timer and no request is pending, and "f2" is displayed
C25_Witness ==
    /\ mounted
    /\ ~isLoading
    /\ timers = {}
    /\ inflight = {}
    /\ Len(dispatched) = 2
    /\ ended = [id |-> requestId, kind |-> "resolve", result |-> <<"f2">>]
    /\ items = <<"f2">>

\* C26: the buffer, the cursor and the mention span are well formed in every
\* reachable state of the Composer: the cursor lies within the buffer, and
\* while a mention is parsed its span satisfies 0 <= start < end = cursorIndex
\* <= length(text), text[start] is "@", the query is text[start+1 .. end) and
\* holds neither a space nor a newline.  Typing, cursor moves, confirm,
\* dismiss, skill insertion and send all preserve this.
C26_WellFormed ==
    /\ cursorIndex >= 0
    /\ cursorIndex <= Len(text)
    /\ atState.found =>
          /\ 0 <= atState.start
          /\ atState.start < atState.end
          /\ atState.end = cursorIndex
          /\ atState.end <= Len(text)
          /\ text[atState.start + 1] = "@"
          /\ atState.query = SubSeq(text, atState.start + 2, atState.end)
          /\ \A i \in 1..Len(atState.query) : atState.query[i] \notin {" ", "\n"}

\* Escape removed the span of "@a" from "@<tab>@a": the cursor is at 2, and
\* the mention "@<tab>" is parsed there with start 0 and the query "<tab>"
C26_Witness ==
    /\ lastOp.kind = "dismiss"
    /\ text = <<"@", "\t">>
    /\ cursorIndex = 2
    /\ atState.found
    /\ atState.start = 0
    /\ atState.end = 2
    /\ atState.query = <<"\t">>

\* C27: whenever a mounted hook's isLoading is true, the request tagged with
\* the current sequence number has been dispatched and has not yet resolved:
\* the flag is never true while only a superseded request, or no request at
\* all, is outstanding.
C27_LoadingMeansCurrentInFlight ==
    (mounted /\ isLoading) =>
        /\ \E i \in 1..Len(dispatched) : dispatched[i].id = requestId
        /\ \E r \in inflight : r.id = requestId
====
